---- MODULE Spec2Model ----
(***************************************************************************)
(* Model of common/libs/scheduling/index.ts: the cost formulas, the two    *)
(* call encoders and the validity-report decoder of the Ethereum Alarm     *)
(* Clock scheduling library.                                               *)
(*                                                                         *)
(* Every exported function is pure.  Init draws one argument bundle from   *)
(* a bounded set, one action per function applies it to the bundle.        *)
(*                                                                         *)
(* JavaScript values are tagged records: null, undefined, number, string,  *)
(* Buffer and BN.  A BN is a sign and a little-endian magnitude in limbs   *)
(* of LimbBits bits, so that the arbitrary-precision arithmetic of bn.js   *)
(* is computed exactly although the model checker's integers are 32 bits.  *)
(***************************************************************************)
EXTENDS Integers, Sequences, FiniteSets, TLC

VARIABLES pc, args, result

vars == <<pc, args, result>>

-----------------------------------------------------------------------------
(* JavaScript values *)

Null == [t |-> "null"]

Undefined == [t |-> "undefined"]

Num(n) == [t |-> "number", v |-> n]

Str(chars) == [t |-> "string", chars |-> chars]

Buf(bytes) == [t |-> "Buffer", bytes |-> bytes]

\* !x is false for every object (a BN of value zero included) and for every
\* number but 0; null, undefined and '' are falsy.
Truthy(x) ==
  CASE x.t = "null" -> FALSE
    [] x.t = "undefined" -> FALSE
    [] x.t = "number" -> x.v # 0
    [] x.t = "string" -> x.chars # <<>>
    [] OTHER -> TRUE

\* a || b
Or(a, b) == IF Truthy(a) THEN a ELSE b

-----------------------------------------------------------------------------
(* bn.js: arbitrary-precision integers *)

LimbBits == 15

Base == 2 ^ LimbBits

RECURSIVE Strip(_)
\* drop the most significant zero limbs
Strip(m) ==
  IF m # <<>> /\ m[Len(m)] = 0 THEN Strip(SubSeq(m, 1, Len(m) - 1)) ELSE m

Limb(m, i) == IF i <= Len(m) THEN m[i] ELSE 0

Max(a, b) == IF a >= b THEN a ELSE b

RECURSIVE MagAddFrom(_, _, _, _)
MagAddFrom(a, b, i, carry) ==
  IF i > Max(Len(a), Len(b))
  THEN IF carry = 0 THEN <<>> ELSE <<carry>>
  ELSE LET s == Limb(a, i) + Limb(b, i) + carry
       IN  <<s % Base>> \o MagAddFrom(a, b, i + 1, s \div Base)

MagAdd(a, b) == MagAddFrom(a, b, 1, 0)

RECURSIVE MagCmpFrom(_, _, _)
\* -1, 0, 1 as |a| is below, equal to, above |b|; i runs from the top limb
MagCmpFrom(a, b, i) ==
  IF i = 0 THEN 0
  ELSE IF Limb(a, i) < Limb(b, i) THEN -1
  ELSE IF Limb(a, i) > Limb(b, i) THEN 1
  ELSE MagCmpFrom(a, b, i - 1)

MagCmp(a, b) == MagCmpFrom(a, b, Max(Len(a), Len(b)))

RECURSIVE MagSubFrom(_, _, _, _)
\* |a| - |b| for |a| >= |b|
MagSubFrom(a, b, i, borrow) ==
  IF i > Len(a) THEN <<>>
  ELSE LET d == Limb(a, i) - Limb(b, i) - borrow
       IN  IF d < 0
           THEN <<d + Base>> \o MagSubFrom(a, b, i + 1, 1)
           ELSE <<d>> \o MagSubFrom(a, b, i + 1, 0)

MagSub(a, b) == Strip(MagSubFrom(a, b, 1, 0))

RECURSIVE MagMulLimb(_, _, _, _)
\* |a| * d for one limb d
MagMulLimb(a, d, i, carry) ==
  IF i > Len(a)
  THEN IF carry = 0 THEN <<>> ELSE <<carry>>
  ELSE LET p == a[i] * d + carry
       IN  <<p % Base>> \o MagMulLimb(a, d, i + 1, p \div Base)

RECURSIVE MagMulFrom(_, _, _)
\* schoolbook product: sum over j of (|a| * b[j]) shifted by j - 1 limbs
MagMulFrom(a, b, j) ==
  IF j > Len(b) THEN <<>>
  ELSE MagAdd(MagMulLimb(a, b[j], 1, 0), <<0>> \o MagMulFrom(a, b, j + 1))

MagMul(a, b) == Strip(MagMulFrom(a, b, 1))

MkBN(neg, mag) == [t |-> "BN", neg |-> (neg /\ mag # <<>>), mag |-> mag]

RECURSIVE MagOfNat(_)
MagOfNat(n) == IF n = 0 THEN <<>> ELSE <<n % Base>> \o MagOfNat(n \div Base)

\* new BN(n) for a JavaScript number n
BN(n) == IF n < 0 THEN MkBN(TRUE, MagOfNat(-n)) ELSE MkBN(FALSE, MagOfNat(n))

RECURSIVE MagOfDigits(_, _)
MagOfDigits(digits, acc) ==
  IF digits = <<>> THEN acc
  ELSE MagOfDigits(Tail(digits),
                   MagAdd(MagMulLimb(acc, 10, 1, 0), MagOfNat(Head(digits))))

\* new BN('d1d2...dn'): a decimal string, given as its digits
BNDec(digits) == MkBN(FALSE, Strip(MagOfDigits(digits, <<>>)))

\* a.add(b)
add(a, b) ==
  IF a.neg = b.neg THEN MkBN(a.neg, MagAdd(a.mag, b.mag))
  ELSE IF MagCmp(a.mag, b.mag) >= 0 THEN MkBN(a.neg, MagSub(a.mag, b.mag))
  ELSE MkBN(b.neg, MagSub(b.mag, a.mag))

\* a.mul(b)
mul(a, b) == MkBN(a.neg # b.neg, MagMul(a.mag, b.mag))

\* a.cmp(b)
cmp(a, b) ==
  IF a.neg /\ ~b.neg THEN -1
  ELSE IF ~a.neg /\ b.neg THEN 1
  ELSE IF a.neg THEN MagCmp(b.mag, a.mag)
  ELSE MagCmp(a.mag, b.mag)

\* a.lt(b)
lt(a, b) == cmp(a, b) < 0

RECURSIVE BitsOf(_)
BitsOf(n) == IF n = 0 THEN 0 ELSE 1 + BitsOf(n \div 2)

\* a.bitLength(): the bits of the magnitude
bitLength(a) ==
  IF a.mag = <<>> THEN 0
  ELSE (Len(a.mag) - 1) * LimbBits + BitsOf(a.mag[Len(a.mag)])

\* 2^k
Pow2(k) ==
  MkBN(FALSE, [i \in 1..(k \div LimbBits + 1) |->
                 IF i = k \div LimbBits + 1 THEN 2 ^ (k % LimbBits) ELSE 0])

-----------------------------------------------------------------------------
(* ethereumjs-util toBuffer, for the strings the model passes as callData *)

HexDigits == <<"0", "1", "2", "3", "4", "5", "6", "7",
               "8", "9", "a", "b", "c", "d", "e", "f">>

IsHexDigit(c) == \E i \in 1..16 : HexDigits[i] = c

HexVal(c) == (CHOOSE i \in 1..16 : HexDigits[i] = c) - 1

\* the character code of a character of the model's alphabet
CharCode(c) ==
  IF c = "x" THEN 120
  ELSE IF HexVal(c) < 10 THEN 48 + HexVal(c) ELSE 87 + HexVal(c)

\* /^0x[0-9A-Fa-f]*$/
isHexString(chars) ==
  /\ Len(chars) >= 2
  /\ chars[1] = "0"
  /\ chars[2] = "x"
  /\ \A i \in 3..Len(chars) : IsHexDigit(chars[i])

padToEven(chars) == IF Len(chars) % 2 = 1 THEN <<"0">> \o chars ELSE chars

\* toBuffer(v) of a string: the bytes a 0x-prefixed hex string spells, the
\* characters' codes for any other string
toBuffer(v) ==
  IF isHexString(v.chars)
  THEN LET h == padToEven(SubSeq(v.chars, 3, Len(v.chars)))
       IN  Buf([i \in 1..(Len(h) \div 2) |->
                  16 * HexVal(h[2 * i - 1]) + HexVal(h[2 * i])])
  ELSE Buf([i \in 1..Len(v.chars) |-> CharCode(v.chars[i])])

-----------------------------------------------------------------------------
(* units: gasPriceToBase converts a gas price in Gwei to wei *)

GweiInWei == BNDec(<<1, 0, 0, 0, 0, 0, 0, 0, 0, 0>>)

gasPriceToBase(price) == mul(BN(price), GweiInWei)

-----------------------------------------------------------------------------
(* EAC_SCHEDULING_CONFIG *)

TIME_BOUNTY_MIN == BNDec(<<1>>)

SCHEDULE_GAS_LIMIT_FALLBACK == BNDec(<<2, 1, 0, 0, 0>>)

SCHEDULE_GAS_PRICE_FALLBACK == 20

FEE == BNDec(<<2, 2, 4, 2, 0, 0, 0, 0, 0, 0, 0, 0, 0, 0, 0, 0>>)

FEE_MULTIPLIER == BNDec(<<2>>)

FUTURE_EXECUTION_COST == BNDec(<<1, 8, 0, 0, 0, 0>>)

SCHEDULING_GAS_LIMIT == BNDec(<<1, 5, 0, 0, 0, 0, 0>>)

-----------------------------------------------------------------------------
(* the cost formulas *)

TypeError == [t |-> "TypeError"]

\* calling a method of null or undefined throws
IsNullish(x) == x.t \in {"null", "undefined"}

\* the default taken for a time bounty of zero as well as for an absent one
calcEACFutureExecutionCost_ZeroIsAbsent(callGas, callGasPrice, timeBounty0) ==
  IF IsNullish(callGas) \/ IsNullish(callGasPrice) THEN TypeError
  ELSE
    LET totalGas == add(callGas, FUTURE_EXECUTION_COST)
        timeBounty == IF ~Truthy(timeBounty0) \/ timeBounty0.mag = <<>>
                      THEN TIME_BOUNTY_MIN
                      ELSE timeBounty0
    IN  add(add(timeBounty, mul(FEE, FEE_MULTIPLIER)),
            mul(totalGas, callGasPrice))

calcEACFutureExecutionCost(callGas, callGasPrice, timeBounty0) ==
  IF IsNullish(callGas) \/ IsNullish(callGasPrice) THEN TypeError
  ELSE
    LET totalGas == add(callGas, FUTURE_EXECUTION_COST)
        timeBounty == IF ~Truthy(timeBounty0) THEN TIME_BOUNTY_MIN
                      ELSE timeBounty0
    IN  add(add(timeBounty, mul(FEE, FEE_MULTIPLIER)),
            mul(totalGas, callGasPrice))

\* the fallback gas price taken in Gwei, its conversion to wei left out
calcEACEndowment_PriceInGwei(callGas, callValue0, callGasPrice, timeBounty) ==
  LET callValue == Or(callValue0, BN(0))
  IN  add(callValue,
          calcEACFutureExecutionCost(
            Or(callGas, SCHEDULE_GAS_LIMIT_FALLBACK),
            Or(callGasPrice, BN(SCHEDULE_GAS_PRICE_FALLBACK)),
            timeBounty))

\* the fallback gas limit taken for a call gas of zero as well
calcEACEndowment_ZeroGasIsAbsent(callGas, callValue0, callGasPrice, timeBounty) ==
  LET callValue == Or(callValue0, BN(0))
  IN  add(callValue,
          calcEACFutureExecutionCost(
            IF Truthy(callGas) /\ callGas.mag # <<>> THEN callGas
            ELSE SCHEDULE_GAS_LIMIT_FALLBACK,
            Or(callGasPrice, gasPriceToBase(SCHEDULE_GAS_PRICE_FALLBACK)),
            timeBounty))

calcEACEndowment(callGas, callValue0, callGasPrice, timeBounty) ==
  LET callValue == Or(callValue0, BN(0))
  IN  add(callValue,
          calcEACFutureExecutionCost(
            Or(callGas, SCHEDULE_GAS_LIMIT_FALLBACK),
            Or(callGasPrice, gasPriceToBase(SCHEDULE_GAS_PRICE_FALLBACK)),
            timeBounty))

calcEACTotalCost(callGas, gasPrice, callGasPrice, timeBounty) ==
  IF IsNullish(gasPrice) THEN TypeError
  ELSE
    LET deployCost == mul(gasPrice, SCHEDULING_GAS_LIMIT)
        futureExecutionCost ==
          calcEACFutureExecutionCost(callGas, callGasPrice, timeBounty)
    IN  IF futureExecutionCost = TypeError THEN TypeError
        ELSE add(deployCost, futureExecutionCost)

-----------------------------------------------------------------------------
(* the schedule-call encoder *)

ScheduleSignature == "schedule(address,bytes,uint[8]):(address)"

\* abi.simpleEncode: the encoder is a black box, its result is identified
\* with the signature and the arguments it was handed
simpleEncode(signature, toAddress, callData, uintArgs) ==
  [t |-> "payload", signature |-> signature, toAddress |-> toAddress,
   callData |-> callData, uintArgs |-> uintArgs]

\* the clamp with the sign test left out: only an absent deposit becomes zero
clampRequiredDeposit_AbsentOnly(requiredDeposit) ==
  IF ~Truthy(requiredDeposit) THEN BN(0) ELSE requiredDeposit

\* lines 91-93: an absent or negative deposit becomes zero
clampRequiredDeposit(requiredDeposit) ==
  IF ~Truthy(requiredDeposit) \/ lt(requiredDeposit, BN(0))
  THEN BN(0) ELSE requiredDeposit

\* the early return with the width test left out
scheduleInputInvalid_NoWidthTest(callGas, callValue, windowSize, windowStart, callGasPrice, timeBounty) ==
  \/ ~Truthy(callValue)
  \/ ~Truthy(callGas)
  \/ ~Truthy(callGasPrice)
  \/ ~Truthy(windowStart)
  \/ ~Truthy(windowSize)
  \/ ~Truthy(timeBounty)
  \/ lt(timeBounty, BN(0))
  \/ lt(callGasPrice, BN(0))
  \/ lt(windowSize, BN(0))

\* lines 99-110: the condition of the early return
scheduleInputInvalid(callGas, callValue, windowSize, windowStart, callGasPrice, timeBounty) ==
  \/ ~Truthy(callValue)
  \/ ~Truthy(callGas)
  \/ ~Truthy(callGasPrice)
  \/ ~Truthy(windowStart)
  \/ ~Truthy(windowSize)
  \/ ~Truthy(timeBounty)
  \/ lt(timeBounty, BN(0))
  \/ lt(callGasPrice, BN(0))
  \/ lt(windowSize, BN(0))
  \/ bitLength(windowSize) > 256

\* the uint[8] argument with callGas and callValue in each other's place
scheduleUintArgs_Swapped(callGas, callValue, windowSize, windowStart, callGasPrice, timeBounty, requiredDeposit) ==
  <<callValue, callGas, windowSize, windowStart, callGasPrice, FEE,
    timeBounty, requiredDeposit>>

\* lines 114-123: the uint[8] argument
scheduleUintArgs(callGas, callValue, windowSize, windowStart, callGasPrice, timeBounty, requiredDeposit) ==
  <<callGas, callValue, windowSize, windowStart, callGasPrice, FEE,
    timeBounty, requiredDeposit>>

getScheduleData(toAddress, callData0, callGas, callValue, windowSize, windowStart, callGasPrice, timeBounty, requiredDeposit0) ==
  LET callData1 == IF callData0 = Undefined THEN Str(<<>>) ELSE callData0
      requiredDeposit == clampRequiredDeposit(requiredDeposit0)
      callData == IF callData1.t = "string" THEN toBuffer(callData1)
                  ELSE callData1
  IN  IF scheduleInputInvalid(callGas, callValue, windowSize, windowStart,
                              callGasPrice, timeBounty)
      THEN Undefined
      ELSE simpleEncode(ScheduleSignature, toAddress, callData,
                        scheduleUintArgs(callGas, callValue, windowSize,
                                         windowStart, callGasPrice,
                                         timeBounty, requiredDeposit))

-----------------------------------------------------------------------------
(* the validity-report decoder *)

Errors == <<"InsufficientEndowment",
            "ReservedWindowBiggerThanExecutionWindow",
            "InvalidTemporalUnit",
            "ExecutionWindowTooSoon",
            "CallGasTooHigh",
            "EmptyToAddress">>

\* the list of names read one place too far
ErrorAt_OneBased(index) ==
  IF index + 1 < Len(Errors) THEN Errors[index + 2] ELSE "undefined"

\* Errors[index] with a zero-based index; undefined past the end
ErrorAt(index) ==
  IF index < Len(Errors) THEN Errors[index + 1] ELSE "undefined"

RECURSIVE forEachFlag(_, _, _)
\* isValid.forEach((boolIsTrue, index) => ...) from index on, errors so far
forEachFlag(isValid, index, errors) ==
  IF index >= Len(isValid) THEN errors
  ELSE forEachFlag(isValid, index + 1,
                   IF ~isValid[index + 1] THEN Append(errors, ErrorAt(index))
                   ELSE errors)

parseSchedulingParametersValidity(isValid) == forEachFlag(isValid, 0, <<>>)

-----------------------------------------------------------------------------
(* the validation-request encoder *)

\* RequestFactory.validateRequestParams.encodeInput: a black box, its
\* result is identified with the arguments it was handed
encodeInput(input) ==
  [t |-> "payload", signature |-> "validateRequestParams", input |-> input]

\* freezePeriod and reservedWindowSize in each other's place
getValidateRequestParamsData_Swapped(toAddress, callData0, callGas, callValue, windowSize0, windowStart, gasPrice, timeBounty, requiredDeposit, isTimestamp, endowment, fromAddress) ==
  LET callData == IF callData0 = Undefined THEN Str(<<>>) ELSE callData0
      windowSize == Or(windowSize0, BN(0))
      temporalUnit == IF isTimestamp THEN 2 ELSE 1
      freezePeriod == IF isTimestamp THEN 3 * 60 ELSE 10
      reservedWindowSize == IF isTimestamp THEN 5 * 60 ELSE 16
      claimWindowSize == IF isTimestamp THEN 60 * 60 ELSE 255
      feeRecipient == "0x0"
  IN  encodeInput(
        [_addressArgs |-> <<fromAddress, feeRecipient, toAddress>>,
         _uintArgs |-> <<FEE, timeBounty, Num(claimWindowSize),
                         Num(reservedWindowSize), Num(freezePeriod),
                         Num(temporalUnit), windowSize, windowStart, callGas,
                         callValue, gasPrice, requiredDeposit>>,
         _callData |-> callData,
         _endowment |-> endowment])

\* the early return of getScheduleData copied into this encoder
getValidateRequestParamsData_Validating(toAddress, callData0, callGas, callValue, windowSize0, windowStart, gasPrice, timeBounty, requiredDeposit, isTimestamp, endowment, fromAddress) ==
  LET callData == IF callData0 = Undefined THEN Str(<<>>) ELSE callData0
      windowSize == Or(windowSize0, BN(0))
      temporalUnit == IF isTimestamp THEN 2 ELSE 1
      freezePeriod == IF isTimestamp THEN 3 * 60 ELSE 10
      reservedWindowSize == IF isTimestamp THEN 5 * 60 ELSE 16
      claimWindowSize == IF isTimestamp THEN 60 * 60 ELSE 255
      feeRecipient == "0x0"
  IN  IF scheduleInputInvalid(callGas, callValue, windowSize, windowStart,
                              gasPrice, timeBounty)
      THEN Undefined
      ELSE encodeInput(
        [_addressArgs |-> <<fromAddress, feeRecipient, toAddress>>,
         _uintArgs |-> <<FEE, timeBounty, Num(claimWindowSize),
                         Num(freezePeriod), Num(reservedWindowSize),
                         Num(temporalUnit), windowSize, windowStart, callGas,
                         callValue, gasPrice, requiredDeposit>>,
         _callData |-> callData,
         _endowment |-> endowment])

getValidateRequestParamsData(toAddress, callData0, callGas, callValue, windowSize0, windowStart, gasPrice, timeBounty, requiredDeposit, isTimestamp, endowment, fromAddress) ==
  LET callData == IF callData0 = Undefined THEN Str(<<>>) ELSE callData0
      windowSize == Or(windowSize0, BN(0))
      temporalUnit == IF isTimestamp THEN 2 ELSE 1
      freezePeriod == IF isTimestamp THEN 3 * 60 ELSE 10
      reservedWindowSize == IF isTimestamp THEN 5 * 60 ELSE 16
      claimWindowSize == IF isTimestamp THEN 60 * 60 ELSE 255
      feeRecipient == "0x0"
  IN  encodeInput(
        [_addressArgs |-> <<fromAddress, feeRecipient, toAddress>>,
         _uintArgs |-> <<FEE, timeBounty, Num(claimWindowSize),
                         Num(freezePeriod), Num(reservedWindowSize),
                         Num(temporalUnit), windowSize, windowStart, callGas,
                         callValue, gasPrice, requiredDeposit>>,
         _callData |-> callData,
         _endowment |-> endowment])

-----------------------------------------------------------------------------
(* the argument bundles the functions are applied to *)

MaxSmall == 2

MaxFlags == 7

Gwei20 == BNDec(<<2, 0, 0, 0, 0, 0, 0, 0, 0, 0, 0>>)

SmallBN == {BN(n) : n \in 0..MaxSmall}

\* 2^256 - 1 and 2^256: the widest value of 256 bits, the first of 257
WidestUint == add(Pow2(256), BN(-1))

CostArgs ==
  [kind : {"cost"},
   callGas : {Null, BN(-1), BN(21000)} \cup SmallBN,
   callValue : {Null, Gwei20} \cup SmallBN,
   callGasPrice : {Null, BN(-1), Gwei20} \cup SmallBN,
   timeBounty : {Null, Gwei20} \cup SmallBN,
   gasPrice : {BN(1), Gwei20}]

ScheduleArgs ==
  [kind : {"schedule"},
   toAddress : {"0x1afc19a7e642761ba2b55d2a45b32c7ef08269d1"},
   callData : {Undefined, Str(<<"0", "x", "a", "b">>), Buf(<<171>>)},
   callGas : {Null, BN(0), BN(3)},
   callValue : {Null, BN(0), BN(4)},
   windowSize : {Null, BN(-1), BN(0), WidestUint, Pow2(256)},
   windowStart : {Null, Num(0), Num(5), BN(0), BN(6)},
   callGasPrice : {Null, BN(-1), BN(0), BN(7)},
   timeBounty : {Null, BN(-1), BN(0), BN(8)},
   requiredDeposit : {Null, BN(-5), BN(0), BN(9)}]

FlagArgs ==
  [kind : {"flags"},
   isValid : UNION {[1..n -> BOOLEAN] : n \in 0..MaxFlags}]

ValidateArgs ==
  [kind : {"validate"},
   toAddress : {"0x1afc19a7e642761ba2b55d2a45b32c7ef08269d1"},
   fromAddress : {"0x496e2b6089bde77293a994469b08e9f266d87adb"},
   callData : {Undefined, Str(<<"0", "x", "a", "b">>)},
   callGas : {Null, BN(3)},
   callValue : {BN(0), BN(4)},
   windowSize : {Null, BN(0), BN(5), Pow2(256)},
   windowStart : {Num(0), Num(100)},
   gasPrice : {BN(-1), BN(7)},
   timeBounty : {Null, BN(-1), BN(8)},
   requiredDeposit : {Null, BN(9)},
   isTimestamp : BOOLEAN,
   endowment : {Gwei20}]

-----------------------------------------------------------------------------
(* the state machine: one bundle is drawn, one function is applied to it *)

Init ==
  /\ pc = "ready"
  /\ args \in CostArgs \cup ScheduleArgs \cup FlagArgs \cup ValidateArgs
  /\ result = Undefined

FutureExecutionCost ==
  /\ pc = "ready"
  /\ args.kind = "cost"
  /\ pc' = "calcEACFutureExecutionCost"
  /\ result' = calcEACFutureExecutionCost(args.callGas, args.callGasPrice,
                                          args.timeBounty)
  /\ UNCHANGED args

Endowment ==
  /\ pc = "ready"
  /\ args.kind = "cost"
  /\ pc' = "calcEACEndowment"
  /\ result' = calcEACEndowment(args.callGas, args.callValue,
                                args.callGasPrice, args.timeBounty)
  /\ UNCHANGED args

TotalCost ==
  /\ pc = "ready"
  /\ args.kind = "cost"
  /\ pc' = "calcEACTotalCost"
  /\ result' = calcEACTotalCost(args.callGas, args.gasPrice,
                                args.callGasPrice, args.timeBounty)
  /\ UNCHANGED args

ScheduleData ==
  /\ pc = "ready"
  /\ args.kind = "schedule"
  /\ pc' = "getScheduleData"
  /\ result' = getScheduleData(args.toAddress, args.callData, args.callGas,
                               args.callValue, args.windowSize,
                               args.windowStart, args.callGasPrice,
                               args.timeBounty, args.requiredDeposit)
  /\ UNCHANGED args

ParseValidity ==
  /\ pc = "ready"
  /\ args.kind = "flags"
  /\ pc' = "parseSchedulingParametersValidity"
  /\ result' = parseSchedulingParametersValidity(args.isValid)
  /\ UNCHANGED args

ValidateRequestParamsData ==
  /\ pc = "ready"
  /\ args.kind = "validate"
  /\ pc' = "getValidateRequestParamsData"
  /\ result' = getValidateRequestParamsData(
                 args.toAddress, args.callData, args.callGas, args.callValue,
                 args.windowSize, args.windowStart, args.gasPrice,
                 args.timeBounty, args.requiredDeposit, args.isTimestamp,
                 args.endowment, args.fromAddress)
  /\ UNCHANGED args

Next ==
  \/ FutureExecutionCost
  \/ Endowment
  \/ TotalCost
  \/ ScheduleData
  \/ ParseValidity
  \/ ValidateRequestParamsData

Spec == Init /\ [][Next]_vars

-----------------------------------------------------------------------------
(* Properties *)

Supplied(x) == x.t \notin {"null", "undefined"}

Negative(x) == x.t = "BN" /\ x.neg /\ x.mag # <<>>

NonNegative(x) == x.t = "BN" /\ ~Negative(x)

\* x < 2^256 in magnitude
FitsIn256Bits(x) == x.t = "BN" /\ MagCmp(x.mag, Pow2(256).mag) < 0

IsPayload(r) == r.t = "payload"

\* the validation of getScheduleData as the specification words it
ScheduleInputsValid(a) ==
  /\ Supplied(a.callValue)
  /\ Supplied(a.callGas)
  /\ Supplied(a.callGasPrice)
  /\ Supplied(a.windowStart)
  /\ Supplied(a.windowSize)
  /\ Supplied(a.timeBounty)
  /\ NonNegative(a.timeBounty)
  /\ NonNegative(a.callGasPrice)
  /\ NonNegative(a.windowSize)
  /\ FitsIn256Bits(a.windowSize)

\* the ways an argument bundle of getScheduleData can break that validation
ScheduleViolations(a) ==
  {v \in {"callValue", "callGas", "callGasPrice", "windowStart",
          "windowSize", "timeBounty"} : ~Supplied(a[v])}
  \cup {v \in {"timeBounty", "callGasPrice", "windowSize"} : Negative(a[v])}
  \cup (IF Supplied(a.windowSize) /\ ~FitsIn256Bits(a.windowSize)
        THEN {"windowSizeWidth"} ELSE {})

\* C1: getScheduleData returns no result when any of callValue, callGas,
\* callGasPrice, windowStart, windowSize, timeBounty is absent, when
\* timeBounty, callGasPrice or windowSize is negative, and when windowSize
\* needs more than 256 bits.
C1_InvalidInputGivesNoResult ==
  (pc = "getScheduleData" /\ ScheduleViolations(args) # {})
    => result = Undefined

\* a window size of 2^256 as the only violation, and no result
C1_Witness ==
  /\ pc = "getScheduleData"
  /\ args.windowSize = Pow2(256)
  /\ Cardinality(ScheduleViolations(args)) = 1
  /\ Truthy(args.windowStart)
  /\ result = Undefined

ClampedDeposit(d) == IF ~Supplied(d) \/ Negative(d) THEN BN(0) ELSE d

\* C2: whenever getScheduleData produces a payload, the encoder was handed
\* the 8 numbers callGas, callValue, windowSize, windowStart, callGasPrice,
\* FEE, timeBounty, requiredDeposit (clamped), in this order, each as the
\* caller supplied it.
C2_UintArgsOrder ==
  (pc = "getScheduleData" /\ IsPayload(result)) =>
    /\ Len(result.uintArgs) = 8
    /\ result.uintArgs[1] = args.callGas
    /\ result.uintArgs[2] = args.callValue
    /\ result.uintArgs[3] = args.windowSize
    /\ result.uintArgs[4] = args.windowStart
    /\ result.uintArgs[5] = args.callGasPrice
    /\ result.uintArgs[6] = BNDec(<<2, 2, 4, 2, 0, 0, 0, 0, 0, 0, 0, 0, 0, 0, 0, 0>>)
    /\ result.uintArgs[7] = args.timeBounty
    /\ result.uintArgs[8] = ClampedDeposit(args.requiredDeposit)

\* a payload for eight pairwise different numbers
C2_Witness ==
  /\ pc = "getScheduleData"
  /\ IsPayload(result)
  /\ args.callGas = BN(3)
  /\ args.callValue = BN(4)
  /\ args.windowSize = WidestUint
  /\ args.windowStart = Num(5)
  /\ args.callGasPrice = BN(7)
  /\ args.timeBounty = BN(8)
  /\ args.requiredDeposit = BN(9)

\* C5: getScheduleData yields a payload whenever the six required values
\* are supplied (zero counts as supplied), timeBounty, callGasPrice and
\* windowSize are non-negative and windowSize fits in 256 bits; it yields
\* no result only if that validation fails.
C5_ValidInputGivesPayload ==
  pc = "getScheduleData" =>
    /\ ScheduleInputsValid(args) => IsPayload(result)
    /\ result = Undefined => ~ScheduleInputsValid(args)

\* C6: an absent or negative requiredDeposit gives the very output of
\* requiredDeposit = 0 (a payload or not as the other inputs decide), and a
\* non-negative requiredDeposit reaches the encoder unchanged.
C6_DepositClamped ==
  pc = "getScheduleData" =>
    /\ (~Supplied(args.requiredDeposit) \/ Negative(args.requiredDeposit)) =>
         result = getScheduleData(args.toAddress, args.callData, args.callGas,
                                  args.callValue, args.windowSize,
                                  args.windowStart, args.callGasPrice,
                                  args.timeBounty, BN(0))
    /\ (NonNegative(args.requiredDeposit) /\ IsPayload(result)) =>
         result.uintArgs[8] = args.requiredDeposit

\* a deposit of -5 with valid other inputs: a payload with deposit zero
C6_Witness ==
  /\ pc = "getScheduleData"
  /\ args.requiredDeposit = BN(-5)
  /\ IsPayload(result)
  /\ result.uintArgs[8] = BN(0)

\* the effective time bounty: the supplied one, the minimum of 1 when absent
EffectiveTimeBounty(tb) == IF Supplied(tb) THEN tb ELSE BNDec(<<1>>)

\* C3: for non-negative callGas and callGasPrice, the future execution cost
\* is effectiveTimeBounty + FEE * FEE_MULTIPLIER + (callGas + 180000) *
\* callGasPrice (here with the product multiplied out), where only an absent
\* time bounty is replaced by TIME_BOUNTY_MIN; so the result for an absent
\* time bounty is the result for TIME_BOUNTY_MIN.
C3_FutureExecutionCostFormula ==
  (/\ pc = "calcEACFutureExecutionCost"
   /\ NonNegative(args.callGas)
   /\ NonNegative(args.callGasPrice)) =>
    /\ result =
         add(add(add(EffectiveTimeBounty(args.timeBounty),
                     mul(FEE_MULTIPLIER, FEE)),
                 mul(args.callGas, args.callGasPrice)),
             mul(BNDec(<<1, 8, 0, 0, 0, 0>>), args.callGasPrice))
    /\ ~Supplied(args.timeBounty) =>
         result = calcEACFutureExecutionCost(args.callGas, args.callGasPrice,
                                             TIME_BOUNTY_MIN)

\* a supplied time bounty of zero: 0 + 4484000000000000 + 201000 * 20 Gwei
C3_Witness ==
  /\ pc = "calcEACFutureExecutionCost"
  /\ args.timeBounty = BN(0)
  /\ args.callGas = BN(21000)
  /\ args.callGasPrice = Gwei20
  /\ result = BNDec(<<8, 5, 0, 4, 0, 0, 0, 0, 0, 0, 0, 0, 0, 0, 0, 0>>)

\* C4: the endowment is callValue + futureExecutionCost(callGas,
\* callGasPrice, timeBounty) where an absent callValue is 0, an absent
\* callGas is 21000, an absent callGasPrice is 20 Gwei in wei
\* (20000000000), and a supplied value, zero included, is used as given.
C4_EndowmentFormula ==
  pc = "calcEACEndowment" =>
    result =
      add(IF Supplied(args.callValue) THEN args.callValue ELSE BN(0),
          calcEACFutureExecutionCost(
            IF Supplied(args.callGas) THEN args.callGas
            ELSE BNDec(<<2, 1, 0, 0, 0>>),
            IF Supplied(args.callGasPrice) THEN args.callGasPrice
            ELSE BNDec(<<2, 0, 0, 0, 0, 0, 0, 0, 0, 0, 0>>),
            args.timeBounty))

\* every default taken: 0 + 1 + 4484000000000000 + 201000 * 20000000000
C4_Witness ==
  /\ pc = "calcEACEndowment"
  /\ args.callValue = Null
  /\ args.callGas = Null
  /\ args.callGasPrice = Null
  /\ args.timeBounty = BN(1)
  /\ result = BNDec(<<8, 5, 0, 4, 0, 0, 0, 0, 0, 0, 0, 0, 0, 0, 0, 1>>)

\* the values an argument of the endowment is raised to
RaisedValues == SmallBN \cup {BN(21000), Gwei20}

\* C9: with callValue, callGas, callGasPrice and timeBounty supplied and
\* non-negative, raising one of them and keeping the other three never
\* lowers the endowment.
C9_EndowmentMonotone ==
  (/\ pc = "calcEACEndowment"
   /\ NonNegative(args.callGas)
   /\ NonNegative(args.callValue)
   /\ NonNegative(args.callGasPrice)
   /\ NonNegative(args.timeBounty)) =>
    \A v \in RaisedValues :
      /\ cmp(v, args.callGas) >= 0 =>
           cmp(calcEACEndowment(v, args.callValue, args.callGasPrice,
                                args.timeBounty), result) >= 0
      /\ cmp(v, args.callValue) >= 0 =>
           cmp(calcEACEndowment(args.callGas, v, args.callGasPrice,
                                args.timeBounty), result) >= 0
      /\ cmp(v, args.callGasPrice) >= 0 =>
           cmp(calcEACEndowment(args.callGas, args.callValue, v,
                                args.timeBounty), result) >= 0
      /\ cmp(v, args.timeBounty) >= 0 =>
           cmp(calcEACEndowment(args.callGas, args.callValue,
                                args.callGasPrice, v), result) >= 0

\* a call gas of 0 at a positive gas price: raising the gas to 1 raises the
\* endowment
C9_Witness ==
  /\ pc = "calcEACEndowment"
  /\ args.callGas = BN(0)
  /\ args.callValue = BN(0)
  /\ args.callGasPrice = BN(2)
  /\ args.timeBounty = BN(1)
  /\ cmp(calcEACEndowment(BN(1), args.callValue, args.callGasPrice,
                          args.timeBounty), result) > 0

ErrorNames == <<"InsufficientEndowment",
                "ReservedWindowBiggerThanExecutionWindow",
                "InvalidTemporalUnit",
                "ExecutionWindowTooSoon",
                "CallGasTooHigh",
                "EmptyToAddress">>

FalsePositions(flags) == {i \in 1..Len(flags) : ~flags[i]}

\* the k-th position, in input order, whose flag is false
KthFalse(flags, k) ==
  CHOOSE i \in FalsePositions(flags) :
    Cardinality({j \in FalsePositions(flags) : j <= i}) = k

\* C7: for 6 flags, parseSchedulingParametersValidity returns the names at
\* the positions whose flag is false, in input order; as many names as false
\* flags, none for six true flags, and [InsufficientEndowment,
\* EmptyToAddress] for [false, true, true, true, true, false].
C7_NamesOfFalseFlags ==
  (pc = "parseSchedulingParametersValidity" /\ Len(args.isValid) = 6) =>
    /\ Len(result) = Cardinality(FalsePositions(args.isValid))
    /\ \A k \in 1..Len(result) :
         result[k] = ErrorNames[KthFalse(args.isValid, k)]
    /\ args.isValid = <<TRUE, TRUE, TRUE, TRUE, TRUE, TRUE>> =>
         result = <<>>
    /\ args.isValid = <<FALSE, TRUE, TRUE, TRUE, TRUE, FALSE>> =>
         result = <<"InsufficientEndowment", "EmptyToAddress">>

\* the first and the last flag false
C7_Witness ==
  /\ pc = "parseSchedulingParametersValidity"
  /\ args.isValid = <<FALSE, TRUE, TRUE, TRUE, TRUE, FALSE>>
  /\ result = <<"InsufficientEndowment", "EmptyToAddress">>

\* C8: getValidateRequestParamsData hands the encoder the 12 numbers FEE,
\* timeBounty, claimWindowSize, freezePeriod, reservedWindowSize,
\* temporalUnit, windowSize, windowStart, callGas, callValue, gasPrice,
\* requiredDeposit, with (temporalUnit, freezePeriod, reservedWindowSize,
\* claimWindowSize) = (2, 180, 300, 3600) for a timestamp and (1, 10, 16,
\* 255) for a block, an absent windowSize as 0, and the addresses
\* [fromAddress, "0x0", toAddress].
C8_ValidateArguments ==
  pc = "getValidateRequestParamsData" =>
    /\ IsPayload(result)
    /\ result.input._uintArgs =
         <<BNDec(<<2, 2, 4, 2, 0, 0, 0, 0, 0, 0, 0, 0, 0, 0, 0, 0>>),
           args.timeBounty,
           Num(IF args.isTimestamp THEN 3600 ELSE 255),
           Num(IF args.isTimestamp THEN 180 ELSE 10),
           Num(IF args.isTimestamp THEN 300 ELSE 16),
           Num(IF args.isTimestamp THEN 2 ELSE 1),
           IF Supplied(args.windowSize) THEN args.windowSize ELSE BN(0),
           args.windowStart,
           args.callGas,
           args.callValue,
           args.gasPrice,
           args.requiredDeposit>>
    /\ result.input._addressArgs = <<args.fromAddress, "0x0", args.toAddress>>

\* a timestamp request without a window size
C8_Witness ==
  /\ pc = "getValidateRequestParamsData"
  /\ args.isTimestamp
  /\ args.windowSize = Null
  /\ result.input._uintArgs[7] = BN(0)
  /\ result.input._uintArgs[4] = Num(180)

\* the ways an argument bundle of getValidateRequestParamsData misses a
\* required number or breaks a sign or width constraint
ValidateViolations(a) ==
  {v \in {"callValue", "callGas", "gasPrice", "windowStart", "timeBounty"} :
     ~Supplied(a[v])}
  \cup {v \in {"timeBounty", "gasPrice", "windowSize"} : Negative(a[v])}
  \cup (IF Supplied(a.windowSize) /\ ~FitsIn256Bits(a.windowSize)
        THEN {"windowSizeWidth"} ELSE {})

\* C10 as stated: both encoders return nothing when a required numeric
\* input is missing or breaks a non-negativity or bit-length constraint.
C10_BothEncodersFailSilently ==
  /\ (pc = "getScheduleData" /\ ScheduleViolations(args) # {}) =>
       result = Undefined
  /\ (pc = "getValidateRequestParamsData" /\ ValidateViolations(args) # {}) =>
       result = Undefined

\* C10 as amended: getScheduleData alone returns nothing on such an input;
\* getValidateRequestParamsData validates nothing: for every input it hands
\* the numbers to the encoder as they are and returns the encoder's output.
C10_OnlyScheduleFailsSilently ==
  /\ (pc = "getScheduleData" /\ ScheduleViolations(args) # {}) =>
       result = Undefined
  /\ pc = "getValidateRequestParamsData" =>
       /\ IsPayload(result)
       /\ result.input._uintArgs[2] = args.timeBounty
       /\ result.input._uintArgs[9] = args.callGas
       /\ result.input._uintArgs[11] = args.gasPrice
       /\ Supplied(args.windowSize) =>
            result.input._uintArgs[7] = args.windowSize

\* an absent time bounty, a negative gas price and a window size of 257
\* bits, and still a payload
C10_Witness ==
  /\ pc = "getValidateRequestParamsData"
  /\ args.timeBounty = Null
  /\ args.gasPrice = BN(-1)
  /\ args.windowSize = Pow2(256)
  /\ Cardinality(ValidateViolations(args)) >= 3
  /\ IsPayload(result)

====
